---- MODULE Spec2Model ----
(***************************************************************************)
(* A model of ytt.py, the YouTube transcript downloader: the identifier    *)
(* extractor (extract_video_id), the output path guard                     *)
(* (validate_output_path), the language list built by main, and the run    *)
(* of main through download_transcript.                                    *)
(*                                                                         *)
(* Python strings are sequences of one-character strings, so that regular  *)
(* expression matching, str.startswith, str.split, str.strip and str.join  *)
(* are computed character by character.  An optional value is a sequence   *)
(* of length 0 (None) or 1 (the value).                                    *)
(***************************************************************************)
EXTENDS Integers, Sequences, FiniteSets, TLC

VARIABLES
    pc,         \* position of the run
    video,      \* args.video
    output,     \* args.output: None or Some(string)
    lang,       \* args.lang: None or Some(string)
    video_id,   \* result of extract_video_id: None or Some(string)
    languages,  \* the language preference list (a sequence of strings)
    valid,      \* result of validate_output_path: None, or Some(<<is_valid, error_msg>>)
    cwd,        \* the working directory, a resolved absolute path (sequence of segments)
    fsDirs,     \* the directories that exist (resolved absolute paths)
    fsLinks,    \* the symbolic links: resolved absolute path -> resolved absolute target
    fsFiles,    \* the regular files: resolved absolute path -> content
    transcript, \* what api.fetch returned: None or Some(sequence of entry texts)
    request,    \* the call made to the transcript service: None or Some(arguments)
    apiCalls,   \* how many times the transcript service has been called
    opened,     \* whether the output file has been opened for writing
    stdout,     \* the characters written to standard output
    stderr,     \* the diagnostic lines written to standard error
    exitCode    \* None until sys.exit, then Some(code)

vars == <<pc, video, output, lang, video_id, languages, valid, cwd, fsDirs, fsLinks,
          fsFiles, transcript, request, apiCalls, opened, stdout, stderr, exitCode>>

None == <<>>
Some(x) == <<x>>

RECURSIVE Concat(_)
\* The concatenation of a sequence of strings.
Concat(ss) == IF ss = <<>> THEN <<>> ELSE Head(ss) \o Concat(Tail(ss))

\* n copies of the character c.
Repeat(c, n) == [i \in 1..n |-> c]

\* s[a:b] of Python for 0 <= a: the characters at 0-based positions a..b-1.
Slice(s, a, b) == SubSeq(s, a + 1, IF b < Len(s) THEN b ELSE Len(s))

StartsWith(s, p) == Len(p) <= Len(s) /\ SubSeq(s, 1, Len(p)) = p

Min(S) == CHOOSE x \in S : \A y \in S : x <= y

(***************************************************************************)
(* extract_video_id                                                        *)
(***************************************************************************)
MAX_LANGUAGES == 10
MAX_INPUT_LEN == 500
ID_LEN == 11

\* The character class [0-9A-Za-z_-].
IdAlphabet ==
    { "0","1","2","3","4","5","6","7","8","9",
      "A","B","C","D","E","F","G","H","I","J","K","L","M",
      "N","O","P","Q","R","S","T","U","V","W","X","Y","Z",
      "a","b","c","d","e","f","g","h","i","j","k","l","m",
      "n","o","p","q","r","s","t","u","v","w","x","y","z",
      "_","-" }

\* [0-9A-Za-z_-]{11} matches at position i of s.
ClassRun(s, i) ==
    /\ i >= 1
    /\ i + ID_LEN - 1 <= Len(s)
    /\ \A j \in i..(i + ID_LEN - 1) : s[j] \in IdAlphabet

\* The literal lit matches at position i of s.
LiteralAt(s, i, lit) ==
    /\ i >= 1
    /\ i + Len(lit) - 1 <= Len(s)
    /\ SubSeq(s, i, i + Len(lit) - 1) = lit

\* $ (without re.MULTILINE) matches after position i of s: at the end of the
\* string, or just before a newline that ends the string.
DollarAfter(s, i) ==
    \/ i = Len(s)
    \/ i + 1 = Len(s) /\ s[Len(s)] = "\n"

\* Where group 1 starts when (?:v=|\/)([0-9A-Za-z_-]{11}).* matches at i, else 0.
Pattern1GroupAt(s, i) ==
    IF LiteralAt(s, i, <<"v","=">>) /\ ClassRun(s, i + 2) THEN i + 2
    ELSE IF LiteralAt(s, i, <<"/">>) /\ ClassRun(s, i + 1) THEN i + 1
    ELSE 0

\* Where group 1 starts when (?:embed\/)([0-9A-Za-z_-]{11}) matches at i, else 0.
Pattern2GroupAt(s, i) ==
    IF LiteralAt(s, i, <<"e","m","b","e","d","/">>) /\ ClassRun(s, i + 6) THEN i + 6 ELSE 0

\* Where group 1 starts when ^([0-9A-Za-z_-]{11})$ matches at i, else 0.
Pattern3GroupAt(s, i) ==
    IF i = 1 /\ ClassRun(s, 1) /\ DollarAfter(s, ID_LEN) THEN 1 ELSE 0

PatternGroupAt(p, s, i) ==
    CASE p = 1 -> Pattern1GroupAt(s, i)
      [] p = 2 -> Pattern2GroupAt(s, i)
      [] p = 3 -> Pattern3GroupAt(s, i)

\* re.search(patterns[p], s).group(1): the group of the leftmost match, or None.
SearchGroup(p, s) ==
    LET hits == { i \in 1..Len(s) : PatternGroupAt(p, s, i) # 0 }
    IN  IF hits = {} THEN None
        ELSE LET g == PatternGroupAt(p, s, Min(hits))
             IN  Some(SubSeq(s, g, g + ID_LEN - 1))

\* re.match(r'^[0-9A-Za-z_-]{11}$', v)
StrictMatch(v) == ClassRun(v, 1) /\ DollarAfter(v, ID_LEN)

\* One turn of the loop over the patterns: the validated group, or None.
TryPattern(p, s) ==
    LET m == SearchGroup(p, s)
    IN  IF m # None /\ StrictMatch(m[1]) THEN m ELSE None

NUM_PATTERNS == 3

extract_video_id_NoLengthGuard(url_or_id) ==
    LET found == { p \in 1..NUM_PATTERNS : TryPattern(p, url_or_id) # None }
    IN  IF found = {} THEN None ELSE TryPattern(Min(found), url_or_id)

extract_video_id_NoBarePattern(url_or_id) ==
    IF Len(url_or_id) > MAX_INPUT_LEN THEN None
    ELSE LET found == { p \in 1..(NUM_PATTERNS - 1) : TryPattern(p, url_or_id) # None }
         IN  IF found = {} THEN None ELSE TryPattern(Min(found), url_or_id)

extract_video_id(url_or_id) ==
    IF Len(url_or_id) > MAX_INPUT_LEN THEN None
    ELSE LET found == { p \in 1..NUM_PATTERNS : TryPattern(p, url_or_id) # None }
         IN  IF found = {} THEN None ELSE TryPattern(Min(found), url_or_id)

\* str.isprintable for the characters the model draws.
IsPrintable(c) == c \notin { "\n", "\t", "NUL" }

\* sanitize_for_display(text, max_length=50)
SANITIZE_MAX == 50

sanitize_for_display(text) ==
    IF text = <<>> THEN <<>>
    ELSE SelectSeq(Slice(text, 0, SANITIZE_MAX), IsPrintable)

(***************************************************************************)
(* The filesystem and pathlib                                              *)
(***************************************************************************)
\* The 1-based position of the first c in s, or 0.
IndexOf(s, c) ==
    LET at == { i \in 1..Len(s) : s[i] = c }
    IN  IF at = {} THEN 0 ELSE Min(at)

RECURSIVE Split(_, _)
\* str.split(sep) for a one-character separator: always at least one field.
Split(s, sep) ==
    LET i == IndexOf(s, sep)
    IN  IF i = 0 THEN <<s>>
        ELSE <<SubSeq(s, 1, i - 1)>> \o Split(SubSeq(s, i + 1, Len(s)), sep)

Whitespace == { " ", "\t", "\n" }

\* str.strip(): without the leading and trailing whitespace.
Strip(s) ==
    LET keep == { i \in 1..Len(s) : s[i] \notin Whitespace }
    IN  IF keep = {} THEN <<>>
        ELSE SubSeq(s, Min(keep), CHOOSE i \in keep : \A j \in keep : j <= i)

RECURSIVE JoinWith(_, _)
\* sep.join(ss)
JoinWith(sep, ss) ==
    IF ss = <<>> THEN <<>>
    ELSE IF Len(ss) = 1 THEN ss[1]
    ELSE ss[1] \o sep \o JoinWith(sep, Tail(ss))

\* A path is the sequence of its segments below the root.
Parent(p) == IF p = <<>> THEN <<>> ELSE SubSeq(p, 1, Len(p) - 1)

\* Path.name
Name(p) == IF p = <<>> THEN <<>> ELSE p[Len(p)]

\* str(path) of an absolute path
PathStr(p) == IF p = <<>> THEN <<"/">> ELSE Concat([i \in 1..Len(p) |-> <<"/">> \o p[i]])

IsDot(seg) == seg = <<>> \/ seg = <<".">>

\* The segments pathlib keeps of a path string: empty and "." segments are dropped.
Segments(s) == SelectSeq(Split(s, "/"), LAMBDA seg : ~IsDot(seg))

IsAbsolute(s) == s # <<>> /\ s[1] = "/"

RECURSIVE Walk(_, _)
\* os.path.realpath, not strict: from the resolved directory cur, follow the
\* segments; ".." goes to the parent, a symbolic link is replaced by its target.
Walk(cur, segs) ==
    IF segs = <<>> THEN cur
    ELSE LET seg == Head(segs)
             nxt == Append(cur, seg)
         IN  IF seg = <<".",".">> THEN Walk(Parent(cur), Tail(segs))
             ELSE IF nxt \in DOMAIN fsLinks
                  THEN Walk(Walk(<<>>, fsLinks[nxt]), Tail(segs))
                  ELSE Walk(nxt, Tail(segs))

\* Path(s).resolve(): None when it raises ValueError (embedded null byte),
\* else Some(the absolute path with the symbolic links resolved).
Resolve(s) ==
    IF \E i \in 1..Len(s) : s[i] = "NUL" THEN None
    ELSE Some(Walk(IF IsAbsolute(s) THEN <<>> ELSE cwd, Segments(s)))

\* Path.exists() of a resolved path
Exists(p) == p \in fsDirs \/ p \in DOMAIN fsFiles

(***************************************************************************)
(* validate_output_path                                                    *)
(***************************************************************************)
FORBIDDEN_PATHS ==
    << <<"/","e","t","c">>, <<"/","s","y","s">>, <<"/","p","r","o","c">>, <<"/","b","o","o","t">>, <<"/","r","o","o","t">>, <<"/","v","a","r">>,
       <<"/","p","r","i","v","a","t","e","/","e","t","c">>, <<"/","p","r","i","v","a","t","e","/","v","a","r">>, <<"/","S","y","s","t","e","m">>, <<"/","L","i","b","r","a","r","y">>, <<"/","A","p","p","l","i","c","a","t","i","o","n","s">>,
       <<"/","t","m","p">>, <<"/","d","e","v">> >>

FORBIDDEN_FILENAMES ==
    { <<".","e","n","v">>, <<".","g","i","t">>, <<"i","d","_","r","s","a">>, <<"a","u","t","h","o","r","i","z","e","d","_","k","e","y","s">>, <<".","s","s","h">> }

\* str(Path(forbidden).resolve()) if Path(forbidden).exists() else forbidden
ForbiddenResolved(forbidden) ==
    LET r == Resolve(forbidden)[1]
    IN  IF Exists(r) THEN PathStr(r) ELSE forbidden

Rejected(kind, detail) == [is_valid |-> FALSE, kind |-> kind, detail |-> detail]
Accepted == [is_valid |-> TRUE, kind |-> "", detail |-> <<>>]

ForbiddenHit_LiteralOnly(output_path_str) ==
    LET hits == { k \in 1..Len(FORBIDDEN_PATHS) :
                    StartsWith(output_path_str, FORBIDDEN_PATHS[k]) }
    IN  IF hits = {} THEN 0 ELSE Min(hits)

\* The first forbidden directory the path string starts with, as an index, or 0.
ForbiddenHit(output_path_str) ==
    LET hits == { k \in 1..Len(FORBIDDEN_PATHS) :
                    \/ StartsWith(output_path_str, ForbiddenResolved(FORBIDDEN_PATHS[k]))
                    \/ StartsWith(output_path_str, FORBIDDEN_PATHS[k]) }
    IN  IF hits = {} THEN 0 ELSE Min(hits)

validate_output_path(output_file) ==
    IF output_file = <<>> \/ Strip(output_file) = <<>>
    THEN Rejected("Output path cannot be empty", <<>>)
    ELSE LET r == Resolve(output_file)
         IN  IF r = None THEN Rejected("Invalid output path", <<>>)
             ELSE LET output_path == r[1]
                      hit == ForbiddenHit(PathStr(output_path))
                  IN  IF hit # 0
                      THEN Rejected("Cannot write to system directory", FORBIDDEN_PATHS[hit])
                      ELSE IF Name(output_path) \in FORBIDDEN_FILENAMES
                      THEN Rejected("Cannot overwrite protected file", Name(output_path))
                      ELSE IF ~Exists(Parent(output_path))
                      THEN Rejected("Parent directory does not exist",
                                    PathStr(Parent(output_path)))
                      ELSE Accepted

(***************************************************************************)
(* main and download_transcript                                            *)
(***************************************************************************)
EN == <<"e","n">>

\* Python truth of an optional string: neither None nor ''.
Truthy(opt) == opt # None /\ opt[1] # <<>>

Range(f) == { f[i] : i \in DOMAIN f }

BuildLanguages_AlwaysAppend(l) ==
    IF Truthy(l)
    THEN LET fields == Split(l[1], ",")
             tags == Slice([i \in 1..Len(fields) |-> Strip(fields[i])], 0, MAX_LANGUAGES)
         IN  Append(tags, EN)
    ELSE <<EN>>

\* The language list main builds from args.lang.
BuildLanguages(l) ==
    IF Truthy(l)
    THEN LET fields == Split(l[1], ",")
             tags == Slice([i \in 1..Len(fields) |-> Strip(fields[i])], 0, MAX_LANGUAGES)
         IN  IF EN \notin Range(tags) THEN Append(tags, EN) ELSE tags
    ELSE <<EN>>

Line(level, msg, detail) == [level |-> level, msg |-> msg, detail |-> detail]

\* print(..., file=sys.stderr)
Eprint(level, msg, detail) == stderr' = Append(stderr, Line(level, msg, detail))

\* '\n'.join(text_lines)
JoinLines(text_lines) == JoinWith(<<"\n">>, text_lines)

\* What f.write receives: '\n'.join(text_lines) + '\n'
FileText_NoTrailingNewline(text_lines) == JoinLines(text_lines)

FileText(text_lines) == JoinLines(text_lines) \o <<"\n">>

\* What print('\n'.join(text_lines)) writes: the text and the newline print adds.
PrintText(text_lines) == JoinLines(text_lines) \o <<"\n">>

\* The file open(output_file, 'w') names.
OutputTarget == Resolve(output[1])

\* video_id = extract_video_id(args.video); no identifier: diagnostic, sys.exit(1).
MainExtract ==
    /\ pc = "start"
    /\ video_id' = extract_video_id(video)
    /\ IF video_id' = None
       THEN /\ Eprint("Error", "Could not extract video ID from", sanitize_for_display(video))
            /\ exitCode' = Some(1)
            /\ pc' = "exit"
       ELSE /\ pc' = "languages"
            /\ UNCHANGED <<stderr, exitCode>>
    /\ UNCHANGED <<video, output, lang, languages, valid, cwd, fsDirs, fsLinks, fsFiles,
                   transcript, request, apiCalls, opened, stdout>>

\* Build the language list with the English fallback.
MainLanguages ==
    /\ pc = "languages"
    /\ languages' = BuildLanguages(lang)
    /\ pc' = "validate"
    /\ UNCHANGED <<video, output, lang, video_id, valid, cwd, fsDirs, fsLinks, fsFiles,
                   transcript, request, apiCalls, opened, stdout, stderr, exitCode>>

DTValidate_IgnoreResult ==
    /\ pc = "validate"
    /\ IF Truthy(output)
       THEN /\ valid' = Some(validate_output_path(output[1]))
            /\ pc' = "fetch"
            /\ UNCHANGED stderr
       ELSE /\ pc' = "fetch"
            /\ UNCHANGED <<valid, stderr>>
    /\ UNCHANGED <<video, output, lang, video_id, languages, cwd, fsDirs, fsLinks, fsFiles,
                   transcript, request, apiCalls, opened, stdout, exitCode>>

\* download_transcript: validate the output path if one is provided.
DTValidate ==
    /\ pc = "validate"
    /\ IF Truthy(output)
       THEN LET v == validate_output_path(output[1])
            IN  /\ valid' = Some(v)
                /\ IF v.is_valid
                   THEN pc' = "fetch" /\ UNCHANGED stderr
                   ELSE pc' = "failed" /\ Eprint("Error", v.kind, v.detail)
       ELSE /\ pc' = "fetch"
            /\ UNCHANGED <<valid, stderr>>
    /\ UNCHANGED <<video, output, lang, video_id, languages, cwd, fsDirs, fsLinks, fsFiles,
                   transcript, request, apiCalls, opened, stdout, exitCode>>

\* What create_api_client finds in YOUTUBE_COOKIES.
CookieStates == { "unset", "found", "missing" }

\* api = create_api_client(); api.fetch(video_id, languages=languages) is called.
DTFetchCall ==
    /\ pc = "fetch"
    /\ \E cookies \in CookieStates :
          IF cookies = "missing"
          THEN Eprint("Warning", "Cookies file not found", <<>>)
          ELSE UNCHANGED stderr
    /\ request' = Some([video_id |-> video_id[1], languages |-> languages])
    /\ apiCalls' = apiCalls + 1
    /\ pc' = "fetching"
    /\ UNCHANGED <<video, output, lang, video_id, languages, valid, cwd, fsDirs, fsLinks,
                   fsFiles, transcript, opened, stdout, exitCode>>

\* The service answers: text_lines = [entry.text for entry in transcript].
DTFetchReturns(entries) ==
    /\ pc = "fetching"
    /\ transcript' = Some(entries)
    /\ pc' = "emit"
    /\ UNCHANGED <<video, output, lang, video_id, languages, valid, cwd, fsDirs, fsLinks,
                   fsFiles, request, apiCalls, opened, stdout, stderr, exitCode>>

\* An except clause of download_transcript: one diagnostic line, return False.
Caught(msg, detail) ==
    /\ Eprint("Error", msg, detail)
    /\ pc' = "failed"
    /\ UNCHANGED <<video, output, lang, video_id, languages, valid, cwd, fsDirs, fsLinks,
                   fsFiles, transcript, request, apiCalls, opened, stdout, exitCode>>

\* except TranscriptsDisabled
DTTranscriptsDisabled ==
    /\ pc = "fetching"
    /\ Caught("Transcripts are disabled for this video", <<>>)

\* except NoTranscriptFound
DTNoTranscriptFound ==
    /\ pc = "fetching"
    /\ Caught("No transcript found for languages", JoinWith(<<","," ">>, languages))

\* except VideoUnavailable
DTVideoUnavailable ==
    /\ pc = "fetching"
    /\ Caught("Video is unavailable or does not exist", <<>>)

\* except InvalidVideoId
DTInvalidVideoId ==
    /\ pc = "fetching"
    /\ Caught("Invalid video ID", <<>>)

\* except Exception: any other exception the fetch raises.
DTOtherException ==
    /\ pc = "fetching"
    /\ Caught("Error downloading transcript", <<>>)

\* with open(output_file, 'w', encoding='utf-8') as f: the file is created or truncated.
DTOpenFile ==
    /\ pc = "emit"
    /\ Truthy(output)
    /\ OutputTarget[1] \notin fsDirs
    /\ Parent(OutputTarget[1]) \in fsDirs
    /\ fsFiles' = [p \in DOMAIN fsFiles \cup {OutputTarget[1]} |->
                     IF p = OutputTarget[1] THEN <<>> ELSE fsFiles[p]]
    /\ opened' = TRUE
    /\ pc' = "write"
    /\ UNCHANGED <<video, output, lang, video_id, languages, valid, cwd, fsDirs, fsLinks,
                   transcript, request, apiCalls, stdout, stderr, exitCode>>

\* open raises (the path is a directory, permission denied): caught by except Exception.
DTOpenFails ==
    /\ pc = "emit"
    /\ Truthy(output)
    /\ Caught("Error downloading transcript", <<>>)

\* f.write('\n'.join(text_lines) + '\n'), the file is closed, four status lines.
DTWriteFile ==
    /\ pc = "write"
    /\ fsFiles' = [fsFiles EXCEPT ![OutputTarget[1]] = FileText(transcript[1])]
    /\ stderr' = stderr \o
         << Line("Info", "Transcript downloaded successfully", <<>>),
            Line("Info", "Video ID", video_id[1]),
            Line("Info", "Output", output[1]),
            Line("Info", "Lines", <<Len(transcript[1])>>) >>
    /\ pc' = "succeeded"
    /\ UNCHANGED <<video, output, lang, video_id, languages, valid, cwd, fsDirs, fsLinks,
                   transcript, request, apiCalls, opened, stdout, exitCode>>

\* f.write raises (no space left): the file stays truncated; caught by except Exception.
DTWriteFails ==
    /\ pc = "write"
    /\ Caught("Error downloading transcript", <<>>)

\* print('\n'.join(text_lines)) when no output file is given.
DTPrint ==
    /\ pc = "emit"
    /\ ~Truthy(output)
    /\ stdout' = stdout \o PrintText(transcript[1])
    /\ pc' = "succeeded"
    /\ UNCHANGED <<video, output, lang, video_id, languages, valid, cwd, fsDirs, fsLinks,
                   fsFiles, transcript, request, apiCalls, opened, stderr, exitCode>>

\* print raises (standard output is closed): caught by except Exception.
DTPrintFails ==
    /\ pc = "emit"
    /\ ~Truthy(output)
    /\ Caught("Error downloading transcript", <<>>)

\* sys.exit(0 if success else 1)
MainExit ==
    /\ pc \in {"succeeded", "failed"}
    /\ exitCode' = Some(IF pc = "succeeded" THEN 0 ELSE 1)
    /\ pc' = "exit"
    /\ UNCHANGED <<video, output, lang, video_id, languages, valid, cwd, fsDirs, fsLinks,
                   fsFiles, transcript, request, apiCalls, opened, stdout, stderr>>

\* extract_video_id called on its own.
ExtractCall ==
    /\ pc = "call extract_video_id"
    /\ video_id' = extract_video_id(video)
    /\ pc' = "returned"
    /\ UNCHANGED <<video, output, lang, languages, valid, cwd, fsDirs, fsLinks, fsFiles,
                   transcript, request, apiCalls, opened, stdout, stderr, exitCode>>

\* validate_output_path called on its own.
ValidateCall ==
    /\ pc = "call validate_output_path"
    /\ valid' = Some(validate_output_path(output[1]))
    /\ pc' = "returned"
    /\ UNCHANGED <<video, output, lang, video_id, languages, cwd, fsDirs, fsLinks, fsFiles,
                   transcript, request, apiCalls, opened, stdout, stderr, exitCode>>

(***************************************************************************)
(* The inputs the runs are drawn from                                      *)
(***************************************************************************)
MaxBody == 12
MaxOver == 1
MaxTags == 12
MaxEntries == 2

\* k copies of c1 followed by n - k copies of c2.
TwoRun(c1, c2, n, k) == [i \in 1..n |-> IF i <= k THEN c1 ELSE c2]

BodyFirst == { "a", "Z", "7", "_", "-", "v" }
BodySecond == BodyFirst \cup { "!", "=", "\n" }

Bodies ==
    { TwoRun(c1, c2, n, k) :
        c1 \in BodyFirst, c2 \in BodySecond,
        n \in {0} \cup ((ID_LEN - 1)..MaxBody), k \in 0..MaxBody }

WatchPrefixes ==
    { <<"h","t","t","p","s",":","/","/","w","w","w",".","y","o","u","t","u","b","e",".","c","o","m","/","w","a","t","c","h","?","v","=">>,
      <<"h","t","t","p","s",":","/","/","m",".","y","o","u","t","u","b","e",".","c","o","m","/","w","a","t","c","h","?","v","=">>,
      <<"y","o","u","t","u","b","e",".","c","o","m","/","w","a","t","c","h","?","v","=">> }

EmbedPrefixes ==
    { <<"h","t","t","p","s",":","/","/","w","w","w",".","y","o","u","t","u","b","e",".","c","o","m","/","e","m","b","e","d","/">>,
      <<"h","t","t","p","s",":","/","/","w","w","w",".","y","o","u","t","u","b","e","-","n","o","c","o","o","k","i","e",".","c","o","m","/","e","m","b","e","d","/">> }

OtherPrefixes ==
    { <<>>, <<"h","t","t","p","s",":","/","/","y","o","u","t","u",".","b","e","/">>, <<"v","=">>, <<"n","o","t"," ","a"," ","u","r","l">> }

Suffixes == { <<>>, <<"&","t","=","4","2","s">> }

SampleId == <<"d","Q","w","4","w","9","W","g","X","c","Q">>

ShortInputs ==
    { p \o b \o s :
        p \in WatchPrefixes \cup EmbedPrefixes \cup OtherPrefixes,
        b \in Bodies \cup {SampleId}, s \in Suffixes }

\* Inputs around the length limit: padding, then a prefix and an identifier.
LongInputs ==
    { Repeat(".", MAX_INPUT_LEN - Len(p) - ID_LEN + d) \o p \o SampleId :
        p \in WatchPrefixes \cup EmbedPrefixes \cup OtherPrefixes,
        d \in (0 - 1)..MaxOver }

ExtractInputs == ShortInputs \cup LongInputs

\* The -l arguments: n tags, all fill but the one at position at.
FillTags == { <<"d","e">>, <<"f","r">> }
SpecialTags == { <<"e","n">>, <<" ","e","n">>, <<"e","n"," ">>, <<"f","r">>, <<"d","e">>, <<"E","N">>, <<>> }

LangInputs ==
    { None, Some(<<>>), Some(<<" ">>) } \cup
    { Some(JoinWith(<<",">>, [i \in 1..n |-> IF i = at THEN t ELSE f])) :
        n \in 1..MaxTags, at \in 1..MaxTags, f \in FillTags, t \in SpecialTags }

\* The filesystems.
Home == << <<"h","o","m","e">>, <<"u">> >>
OutDir == Home \o << <<"o","u","t">> >>
VarFoo == << <<"v","a","r","f","o","o">> >>
OldFile == OutDir \o << <<"t","r","a","n","s","c","r","i","p","t",".","t","x","t">> >>

LinuxDirs ==
    { <<>>, << <<"e","t","c">> >>, << <<"s","y","s">> >>, << <<"p","r","o","c">> >>, << <<"b","o","o","t">> >>, << <<"r","o","o","t">> >>,
      << <<"v","a","r">> >>, << <<"t","m","p">> >>, << <<"d","e","v">> >>, << <<"h","o","m","e">> >>, Home }

MacDirs ==
    { <<>>, << <<"p","r","i","v","a","t","e">> >>, << <<"p","r","i","v","a","t","e">>, <<"e","t","c">> >>, << <<"p","r","i","v","a","t","e">>, <<"v","a","r">> >>,
      << <<"p","r","i","v","a","t","e">>, <<"t","m","p">> >>, << <<"S","y","s","t","e","m">> >>, << <<"L","i","b","r","a","r","y">> >>,
      << <<"A","p","p","l","i","c","a","t","i","o","n","s">> >>, << <<"d","e","v">> >>, << <<"h","o","m","e">> >>, Home }

\* macOS: /etc, /var and /tmp are symbolic links into /private.
MacLinks ==
    { << << <<"e","t","c">> >>, << <<"p","r","i","v","a","t","e">>, <<"e","t","c">> >> >>,
      << << <<"v","a","r">> >>, << <<"p","r","i","v","a","t","e">>, <<"v","a","r">> >> >>,
      << << <<"t","m","p">> >>, << <<"p","r","i","v","a","t","e">>, <<"t","m","p">> >> >> }

\* Links a user may have made: one into a system directory, one to a protected file,
\* one named like a protected file.
UserLinks ==
    { << Home \o << <<"s","y","s">> >>, << <<"e","t","c">> >> >>,
      << Home \o << <<"c","f","g">> >>, Home \o << <<".","e","n","v">> >> >>,
      << Home \o << <<".","g","i","t">> >>, Home \o << <<"n","o","t","e","s",".","t","x","t">> >> >> }

LinkMap(pairs) == [p \in { q[1] : q \in pairs } |-> (CHOOSE q \in pairs : q[1] = p)[2]]

FsConfig(c, dirs, links, files) ==
    [cwd |-> c, dirs |-> dirs, links |-> LinkMap(links), files |-> files]

NoFiles == [p \in {} |-> <<>>]
OneOldFile == [p \in {OldFile} |-> <<"o","l","d"," ","t","e","x","t","\n">>]

PathFsConfigs ==
    { FsConfig(c, base[1] \cup opt, base[2] \cup links, NoFiles) :
        c \in { Home, <<>> },
        base \in { <<LinuxDirs, {}>>, <<MacDirs, MacLinks>> },
        opt \in SUBSET { OutDir, VarFoo },
        links \in SUBSET UserLinks }

MainFsConfigs ==
    { FsConfig(Home, LinuxDirs, {}, NoFiles),
      FsConfig(Home, LinuxDirs \cup {OutDir, VarFoo}, {}, NoFiles),
      FsConfig(Home, LinuxDirs \cup {OutDir, VarFoo}, {}, OneOldFile) }

DirParts ==
    { <<>>, <<".","/">>, <<".","/","o","u","t","/">>, <<"o","u","t","/",".",".","/">>, <<".",".","/">>, <<"s","y","s","/">>, <<"/">>,
      <<"/","e","t","c","/">>, <<"/","t","m","p","/">>, <<"/","t","m","p","/","s","u","b","/">>, <<"/","p","r","i","v","a","t","e","/","e","t","c","/">>, <<"/","v","a","r","f","o","o","/">>,
      <<"/","h","o","m","e","/","u","/">>, <<"/","h","o","m","e","/","u","/","m","i","s","s","i","n","g","/">>, <<" ","/">> }

FileParts ==
    { <<"t","r","a","n","s","c","r","i","p","t",".","t","x","t">>, <<"p","a","s","s","w","d">>, <<".","e","n","v">>, <<".","g","i","t">>, <<"i","d","_","r","s","a">>,
      <<"a","u","t","h","o","r","i","z","e","d","_","k","e","y","s">>, <<".","s","s","h">>, <<".","e","n","v",".","b","a","k">>, <<"c","f","g">>, <<"e","t","c">>,
      <<"a", "NUL", "b">> }

PathInputs ==
    { d \o f : d \in DirParts, f \in FileParts } \cup
    { <<>>, <<" ">>, <<" ","\t"," ">>, <<"/">>, <<".">>, <<"/","e","t","c">>, <<"/","v","a","r">>, <<"/","v","a","r","f","o","o">>, <<"/","d","e","v","/">> }

EntryTexts == { <<"H","e","l","l","o">>, <<"w","o","r","l","d">>, <<>> }

Transcripts ==
    UNION { [1..n -> EntryTexts] : n \in 0..MaxEntries }

MainVideos ==
    { SampleId, <<"h","t","t","p","s",":","/","/","w","w","w",".","y","o","u","t","u","b","e",".","c","o","m","/","w","a","t","c","h","?","v","=","d","Q","w","4","w","9","W","g","X","c","Q">>, <<"n","o","t"," ","a"," ","u","r","l">> }

MainOutputs ==
    { None, Some(<<>>), Some(<<" ">>), Some(<<".","/","o","u","t","/","t","r","a","n","s","c","r","i","p","t",".","t","x","t">>), Some(<<"o","u","t">>),
      Some(<<"/","e","t","c","/","p","a","s","s","w","d">>), Some(<<"/","t","m","p","/","t",".","t","x","t">>), Some(<<".","e","n","v">>),
      Some(<<"/","v","a","r","f","o","o","/","o","u","t",".","t","x","t">>) }

MainLangs == { None, Some(<<"d","e",",","f","r">>), Some(<<"e","n",",","d","e">>) }

(***************************************************************************)
(* The specifications                                                      *)
(***************************************************************************)
\* Nothing has run yet.
Fresh ==
    /\ video_id = None
    /\ languages = <<>>
    /\ valid = None
    /\ transcript = None
    /\ request = None
    /\ apiCalls = 0
    /\ opened = FALSE
    /\ stdout = <<>>
    /\ stderr = <<>>
    /\ exitCode = None

Mounted(fs) ==
    /\ cwd = fs.cwd
    /\ fsDirs = fs.dirs
    /\ fsLinks = fs.links
    /\ fsFiles = fs.files

\* A run of main: the arguments are parsed, nothing else has happened.
Init ==
    /\ pc = "start"
    /\ video \in MainVideos
    /\ output \in MainOutputs
    /\ lang \in MainLangs
    /\ \E fs \in MainFsConfigs : Mounted(fs)
    /\ Fresh

Next ==
    \/ MainExtract
    \/ MainLanguages
    \/ DTValidate
    \/ DTFetchCall
    \/ \E entries \in Transcripts : DTFetchReturns(entries)
    \/ DTTranscriptsDisabled
    \/ DTNoTranscriptFound
    \/ DTVideoUnavailable
    \/ DTInvalidVideoId
    \/ DTOtherException
    \/ DTOpenFile
    \/ DTOpenFails
    \/ DTWriteFile
    \/ DTWriteFails
    \/ DTPrint
    \/ DTPrintFails
    \/ MainExit

Spec == Init /\ [][Next]_vars

\* extract_video_id applied to each input.
InitExtract ==
    /\ pc = "call extract_video_id"
    /\ video \in ExtractInputs
    /\ output = None
    /\ lang = None
    /\ Mounted(FsConfig(Home, LinuxDirs, {}, NoFiles))
    /\ Fresh

NextExtract == ExtractCall

SpecExtract == InitExtract /\ [][NextExtract]_vars

\* validate_output_path applied to each path in each filesystem.
InitPath ==
    /\ pc = "call validate_output_path"
    /\ video = SampleId
    /\ output \in { Some(p) : p \in PathInputs }
    /\ lang = None
    /\ \E fs \in PathFsConfigs : Mounted(fs)
    /\ Fresh

NextPath == ValidateCall

SpecPath == InitPath /\ [][NextPath]_vars

\* The runs of main up to the call of the transcript service, for each -l argument.
InitLang ==
    /\ pc = "start"
    /\ video = SampleId
    /\ output = None
    /\ lang \in LangInputs
    /\ Mounted(FsConfig(Home, LinuxDirs, {}, NoFiles))
    /\ Fresh

NextLang ==
    \/ MainExtract
    \/ MainLanguages
    \/ DTValidate
    \/ DTFetchCall

SpecLang == InitLang /\ [][NextLang]_vars

(***************************************************************************)
(* The identifier extractor (SpecExtract)                                  *)
(***************************************************************************)
\* A string of exactly 11 characters of [0-9A-Za-z_-].
IsIdentifier(s) == Len(s) = ID_LEN /\ \A i \in 1..Len(s) : s[i] \in IdAlphabet

\* s without its first n characters.
After(s, n) == SubSeq(s, n + 1, Len(s))

\* C1: for every identifier S (11 characters of [0-9A-Za-z_-]), extract_video_id
\* returns S for S itself, for a watch URL ending in "watch?v=" + S and for an
\* embed URL ending in "embed/" + S.
C1_ExtractYieldsIdentifier ==
    pc = "returned" =>
        \A p \in {<<>>} \cup WatchPrefixes \cup EmbedPrefixes :
            (StartsWith(video, p) /\ IsIdentifier(After(video, Len(p))))
                => video_id = Some(After(video, Len(p)))

\* C1 happens: an embed URL, a watch URL and a bare identifier were each extracted.
C1_Witness ==
    /\ pc = "returned"
    /\ \E p \in EmbedPrefixes : StartsWith(video, p) /\ Len(video) = Len(p) + ID_LEN
    /\ video_id # None
    /\ IsIdentifier(video_id[1])
    /\ video_id[1][1] # video_id[1][ID_LEN]

\* C2: extract_video_id returns None or a string of exactly 11 characters of
\* [0-9A-Za-z_-], and it returns None for every input longer than 500 characters.
C2_ResultIsIdentifierOrNone ==
    pc = "returned" =>
        /\ video_id = None \/ IsIdentifier(video_id[1])
        /\ Len(video) > MAX_INPUT_LEN => video_id = None

\* C2 happens: an input of 501 characters that ends in a watch URL was refused.
C2_Witness ==
    /\ pc = "returned"
    /\ Len(video) = MAX_INPUT_LEN + 1
    /\ \E p \in WatchPrefixes :
          After(video, Len(video) - Len(p) - ID_LEN) = p \o SampleId
    /\ video_id = None

(***************************************************************************)
(* The language preference list (SpecLang)                                 *)
(***************************************************************************)
\* The list has been built.
LanguagesBuilt == pc \notin {"start", "languages"}

\* The fields of the -l argument between its commas.
GivenFields == IF Truthy(lang) THEN Split(lang[1], ",") ELSE <<>>

\* The tags the -l argument gives: its fields without their surrounding whitespace.
GivenTags == [i \in 1..Len(GivenFields) |-> Strip(GivenFields[i])]

\* How many of the given tags are kept.
KeptCount == IF Len(GivenTags) < MAX_LANGUAGES THEN Len(GivenTags) ELSE MAX_LANGUAGES

\* C3 as stated: the list is the given tags in their order, with "en" appended
\* if and only if "en" is not among the given tags.
C3_GivenTagsKept ==
    LanguagesBuilt =>
        languages = IF EN \in Range(GivenTags) THEN GivenTags ELSE Append(GivenTags, EN)

\* C3 amended: the list is the first MAX_LANGUAGES (10) given tags, in their order
\* and without deduplication, followed by "en" if and only if "en" is not among
\* those first ten; "de,fr" yields [de, fr, en], "en,de" yields [en, de], no -l
\* yields [en]; and the list passed to the transcript service is this list and
\* holds "en".
C3_KeptTagsThenFallback ==
    LanguagesBuilt =>
        /\ Len(languages) \in {KeptCount, KeptCount + 1}
        /\ \A i \in 1..KeptCount : languages[i] = GivenTags[i]
        /\ Len(languages) = KeptCount + 1 =>
              /\ languages[KeptCount + 1] = EN
              /\ \A i \in 1..KeptCount : GivenTags[i] # EN
        /\ Len(languages) = KeptCount => \E i \in 1..KeptCount : GivenTags[i] = EN
        /\ lang = Some(<<"d","e",",","f","r">>) => languages = << <<"d","e">>, <<"f","r">>, <<"e","n">> >>
        /\ lang = Some(<<"e","n",",","d","e">>) => languages = << <<"e","n">>, <<"d","e">> >>
        /\ lang = None => languages = << <<"e","n">> >>
        /\ request # None =>
              /\ request[1].languages = languages
              /\ \E i \in 1..Len(languages) : request[1].languages[i] = EN

\* C3 happens: eleven tags were given, the last of them "en"; the list passed to
\* the service holds the first ten and the appended "en".
C3_Witness ==
    /\ pc = "fetching"
    /\ Len(GivenTags) = MAX_LANGUAGES + 1
    /\ GivenTags[MAX_LANGUAGES + 1] = EN
    /\ \A i \in 1..MAX_LANGUAGES : GivenTags[i] = <<"d","e">>
    /\ request # None
    /\ Len(request[1].languages) = MAX_LANGUAGES + 1

\* C4: the list passed to the transcript service, after the "en" fallback is
\* appended, has at most MAX_LANGUAGES (10) entries.
C4_ListCapped ==
    LanguagesBuilt => Len(languages) <= MAX_LANGUAGES

(***************************************************************************)
(* The output path guard (SpecPath)                                        *)
(***************************************************************************)
\* Empty or whitespace only.
Blank(s) == \A i \in 1..Len(s) : s[i] \in Whitespace

\* The path p is the directory d or lies below it, segment by segment.
IsUnder(p, d) == Len(d) <= Len(p) /\ SubSeq(p, 1, Len(d)) = d

\* The deny-listed directories and their symlink-resolved forms, as paths.
ForbiddenDirs ==
    { Segments(FORBIDDEN_PATHS[k]) : k \in 1..Len(FORBIDDEN_PATHS) } \cup
    { Resolve(FORBIDDEN_PATHS[k])[1] : k \in 1..Len(FORBIDDEN_PATHS) }

\* One of the grounds for rejecting the path s holds.
MustReject(s) ==
    \/ Blank(s)
    \/ Resolve(s) = None
    \/ LET p == Resolve(s)[1]
       IN  \/ \E d \in ForbiddenDirs : IsUnder(p, d)
           \/ Name(p) \in FORBIDDEN_FILENAMES
           \/ Parent(p) \notin fsDirs \cup DOMAIN fsFiles

\* C5: validate_output_path returns (False, reason) for every path that is blank,
\* or whose resolved form is equal to or nested under a deny-listed directory or
\* its symlink-resolved form, or whose resolved form's final component is a
\* protected filename, or whose parent does not exist, or whose resolution raises.
C5_GuardRejects ==
    pc = "returned" =>
        (MustReject(output[1]) => ~valid[1].is_valid /\ valid[1].kind # "")

\* C5 happens: where /tmp is a symbolic link to /private/tmp, a file under /tmp
\* was refused.
C5_Witness ==
    /\ pc = "returned"
    /\ output = Some(<<"/","t","m","p","/","t","r","a","n","s","c","r","i","p","t",".","t","x","t">>)
    /\ << <<"t","m","p">> >> \in DOMAIN fsLinks
    /\ ~valid[1].is_valid
    /\ valid[1].detail = <<"/","t","m","p">>

\* C6: validate_output_path returns (True, None) for every path none of these
\* grounds holds for, containment being decided segment by segment.
C6_GuardAccepts ==
    pc = "returned" =>
        (~MustReject(output[1]) => valid[1].is_valid)

(***************************************************************************)
(* The run of main (Spec)                                                  *)
(***************************************************************************)
\* The Output Path Guard was consulted and accepted the path.
PathAccepted == valid # None /\ valid[1].is_valid

\* The Output Path Guard was consulted and rejected the path.
PathRejected == valid # None /\ ~valid[1].is_valid

\* Standard error holds a diagnostic line.
Diagnosed == \E i \in 1..Len(stderr) : stderr[i].level = "Error"

RECURSIVE EachLine(_)
\* t1 + "\n" + ... + tn + "\n"
EachLine(ts) == IF ts = <<>> THEN <<>> ELSE Head(ts) \o <<"\n">> \o EachLine(Tail(ts))

\* The transcript reached the sink: standard output when no -o argument is given,
\* the output file otherwise.
Written ==
    /\ transcript # None
    /\ IF output = None
       THEN stdout # <<>>
       ELSE opened /\ OutputTarget[1] \in DOMAIN fsFiles
                   /\ fsFiles[OutputTarget[1]] # <<>>

\* C7: every run ends with exit code 0 or 1; 0 exactly when the identifier was
\* extracted, the output path (if given) was accepted, the fetch returned and the
\* transcript was written to the chosen sink; every exit with code 1 follows a
\* diagnostic line on the error stream.
C7_ExitCodes ==
    pc = "exit" =>
        /\ exitCode \in {Some(0), Some(1)}
        /\ exitCode = Some(0) <=>
              /\ video_id # None
              /\ output # None => PathAccepted
              /\ Written
        /\ exitCode = Some(1) => Diagnosed

\* C8: after a successful fetch of the entries t1..tn the emitted text is
\* t1 + "\n" + ... + tn + "\n", on standard output when there is no output file and
\* as the whole content of the output file otherwise; the entries "Hello" and
\* "world" for dQw4w9WgXcQ give "Hello\nworld\n" on standard output and exit code 0.
C8_EmittedText ==
    /\ pc = "succeeded" \/ exitCode = Some(0) =>
          LET text == IF transcript[1] = <<>> THEN <<"\n">> ELSE EachLine(transcript[1])
          IN  IF Truthy(output)
              THEN fsFiles[OutputTarget[1]] = text /\ stdout = <<>>
              ELSE stdout = text
    /\ ( /\ pc = "exit"
         /\ video_id = Some(SampleId)
         /\ output = None
         /\ transcript = Some(<< <<"H","e","l","l","o">>, <<"w","o","r","l","d">> >>)
         /\ ~Diagnosed )
       => stdout = <<"H","e","l","l","o","\n","w","o","r","l","d","\n">> /\ exitCode = Some(0)

\* C8 happens: the run wrote "Hello\nworld\n" over the file that was there.
C8_Witness ==
    /\ pc = "exit"
    /\ exitCode = Some(0)
    /\ output = Some(<<".","/","o","u","t","/","t","r","a","n","s","c","r","i","p","t",".","t","x","t">>)
    /\ transcript = Some(<< <<"H","e","l","l","o">>, <<"w","o","r","l","d">> >>)
    /\ fsFiles[OldFile] = <<"H","e","l","l","o","\n","w","o","r","l","d","\n">>

\* C9: the transcript goes to standard output only when -o is absent; a run with
\* an empty or whitespace-only -o value (and an identifier that was extracted)
\* passes through the Output Path Guard and ends with a rejection, exit code 1,
\* no fetch and nothing on standard output.
C9_BlankOutputRejected ==
    /\ stdout # <<>> => output = None
    /\ (pc = "exit" /\ video_id # None /\ output # None /\ Blank(output[1])) =>
          /\ PathRejected
          /\ exitCode = Some(1)
          /\ apiCalls = 0
          /\ stdout = <<>>

\* A step of the run happens in this state.
ValidatePathStep == valid' # valid
FetchStep == apiCalls' # apiCalls
WriteStep == opened' # opened \/ stdout' # stdout \/ fsFiles' # fsFiles

\* C10: the steps occur in the order extract, validate, fetch, write, each only
\* if the earlier ones succeeded: the service is never called without an
\* identifier or after a rejected path, and only once; the output file is opened,
\* and any file changed, only after the fetch has returned; nothing reaches
\* standard output in a run whose extraction, validation or fetch failed; the
\* video argument "not a url" ends with exit code 1 and empty standard output.
C10_StepOrder ==
    /\ [](apiCalls > 0 => video_id # None /\ ~PathRejected)
    /\ [](opened \/ stdout # <<>> =>
            video_id # None /\ ~PathRejected /\ apiCalls = 1 /\ transcript # None)
    /\ []((pc = "exit" /\ video = <<"n","o","t"," ","a"," ","u","r","l">>) => exitCode = Some(1) /\ stdout = <<>>)
    /\ [][ValidatePathStep => video_id # None /\ apiCalls = 0 /\ ~opened /\ stdout = <<>>]_vars
    /\ [][FetchStep => apiCalls = 0 /\ transcript = None /\ ~opened /\ stdout = <<>>]_vars
    /\ [][WriteStep => transcript # None /\ apiCalls = 1]_vars

\* C10 happens: the path was accepted, the fetch failed, and the run ended with
\* exit code 1 and the file that was there unchanged.
C10_Witness ==
    /\ pc = "exit"
    /\ exitCode = Some(1)
    /\ PathAccepted
    /\ apiCalls = 1
    /\ transcript = None
    /\ OldFile \in DOMAIN fsFiles
    /\ fsFiles[OldFile] = <<"o","l","d"," ","t","e","x","t","\n">>
    /\ stdout = <<>>

====
